---- MODULE Spec2Model ----
(***************************************************************************)
(* National Levee Database notebooks.                                      *)
(*                                                                         *)
(*   1_NLD_Bulk_Download.ipynb  featurelayer2shapefile_ogr: a paged query  *)
(*       of an ArcGIS FeatureServer layer, opened with ogr.Open and copied *)
(*       with CopyLayer into a shapefile.                                  *)
(*   2_NLD_Clip_and_Vis.ipynb   the two-pass clip: sindex.query (bounding  *)
(*       boxes), then GeoSeries.within, then to_file.                      *)
(*                                                                         *)
(* The notebooks are glue around GDAL/OGR and geopandas.  Each library     *)
(* call is modelled at the line that makes it, by what the library does    *)
(* there: the ESRIJSON driver scrolls through result pages by resultOffset *)
(* for as long as the server sets exceededTransferLimit, and a page that   *)
(* cannot be loaded ends the layer like its last feature does (osgeo.ogr   *)
(* is imported without UseExceptions); sindex.query compares bounding      *)
(* boxes and promises no order of its result; within is the DE-9IM         *)
(* predicate.                                                              *)
(***************************************************************************)
EXTENDS Integers, Sequences, FiniteSets, TLC

VARIABLES
    \* ---- 1_NLD_Bulk_Download.ipynb ----
    remote,           \* the layer on the server: its records (OBJECTIDs) in storage order
    maxRecordCount,   \* the service's cap on the records of one response
    shp,              \* the shapefile at shapefile_path: [exists, feats]
    pc,               \* position in featurelayer2shapefile_ogr
    ds,               \* the page the OGR datasource holds: [features, more]
    nLastOffset,      \* resultOffset of the page in ds
    feature_count,    \* layer.GetFeatureCount()
    requests,         \* the page requests of this call, in order: [offset, n, more]
    calls,            \* calls of featurelayer2shapefile_ogr begun so far
    prev,             \* how the previous call ended: [done, clean, feats]
    \* ---- 2_NLD_Clip_and_Vis.ipynb ----
    features_gdf,       \* the rows of the NLD layer: a sequence of geometries
    boundary_gdf,       \* the rows of the boundary file: a sequence of geometries
    boundary_geom,      \* boundary_gdf.iloc[0].geometry
    clip_possible_gdf,  \* 1st pass: row positions of features_gdf, in result order
    clip_exact_gdf,     \* 2nd pass: row positions of features_gdf, in result order
    clipped_shp,        \* the shapefile at nld_clipped_shp_path: [exists, rows]
    cpc,                \* position in the clip notebook
    \* ---- 1_NLD_Bulk_Download.ipynb, bulk download ----
    df,               \* the layer descriptors: the id of each row, in listed order
    id_list,          \* the layers to download: [kind, ids]
    row,              \* position of df.apply in df
    files,            \* the shapefile of each row's shp_path: [exists, feats]
    fetched,          \* the calls of featurelayer2shapefile_ogr made: [row, failed]
    lpc               \* position in the bulk download cell

fetchVars == <<remote, maxRecordCount, shp, pc, ds, nLastOffset, feature_count,
               requests, calls, prev>>
clipVars == <<features_gdf, boundary_gdf, boundary_geom, clip_possible_gdf,
              clip_exact_gdf, clipped_shp, cpc>>
bulkVars == <<df, id_list, row, files, fetched, lpc>>
vars == <<fetchVars, clipVars, bulkVars>>

(***************************************************************************)
(* Bounds.                                                                 *)
(***************************************************************************)
MaxK == 4          \* records of a small remote layer: 0..MaxK
MaxCap == 2        \* small service caps: 1..MaxCap
MaxCalls == 2      \* calls of featurelayer2shapefile_ogr in one run
MaxFeatures == 2   \* rows of features_gdf: 0..MaxFeatures
MaxRows == 2       \* rows of df: 0..MaxRows, with layer ids 0..MaxRows

\* Sizes of the large layers, served by a service whose cap is not below
\* resultRecordCount: page_size - 1, page_size, page_size + 1, 2 * page_size,
\* and 2500.
LargeSizes == {999, 1000, 1001, 2000, 2500}
LargeCaps == {1000, 2000}

(***************************************************************************)
(* Helpers.                                                                *)
(***************************************************************************)
Range(s) == {s[i] : i \in 1..Len(s)}

Min(a, b) == IF a <= b THEN a ELSE b

Perms(S) == {p \in [1..Cardinality(S) -> S] : \A i, j \in 1..Cardinality(S) : p[i] = p[j] => i = j}

Ascending(s) == \A i \in 1..(Len(s) - 1) : s[i] < s[i + 1]

(***************************************************************************)
(* The remote paged collection endpoint.                                   *)
(***************************************************************************)
\* resultRecordCount=1000 of query_url.
resultRecordCount == 1000

\* A query without orderByFields: the records in storage order.
NoOrderBy(s) == s

\* orderByFields=OBJECTID+ASC of query_url: the server sorts the records it
\* selects by identifier before it cuts a page out of them.
OrderByObjectId(s) == SortSeq(s, LAMBDA a, b : a < b)

\* The response to query_url with resultOffset=offset: at most
\* resultRecordCount records, and at most the service's cap, from the
\* ordered selection (where 1 = 1 selects every record);
\* exceededTransferLimit tells that records remain after this page.
QueryPage(offset) ==
    LET sorted == OrderByObjectId(remote)
        k == Len(sorted)
        n == Min(resultRecordCount, maxRecordCount)
        last == Min(offset + n, k)
    IN  [features |-> SubSeq(sorted, offset + 1, last), more |-> last < k]

\* A datasource that scrolls on until a page comes back empty.
AlwaysOtherPages(page) == TRUE

\* The GDAL ESRIJSON datasource: HasOtherPages() of the page it holds, which
\* is the exceededTransferLimit of the response.
HasOtherPages(page) == page.more

NoPage == [features |-> << >>, more |-> FALSE]
NoFile == [exists |-> FALSE, feats |-> << >>]
NoPrev == [done |-> FALSE, clean |-> FALSE, feats |-> << >>]

\* One entry of the request log.
Req(offset, page) == [offset |-> offset, n |-> Len(page.features), more |-> page.more]
FailedReq(offset) == [offset |-> offset, n |-> -1, more |-> FALSE]

Failed(log) == \E i \in 1..Len(log) : log[i].n = -1

(***************************************************************************)
(* featurelayer2shapefile_ogr(featurelayer_url, shapefile_path)            *)
(***************************************************************************)
\* ds = ogr.Open(query_url): the first page is requested and parsed.
OpenOk ==
    /\ pc = "start"
    /\ ds' = QueryPage(0)
    /\ nLastOffset' = 0
    /\ requests' = <<Req(0, QueryPage(0))>>
    /\ pc' = "opened"
    /\ UNCHANGED clipVars
    /\ UNCHANGED bulkVars
    /\ UNCHANGED <<remote, maxRecordCount, shp, feature_count, calls, prev>>

\* A function that removes the existing shapefile before it opens the query.
DeleteThenOpenFails ==
    /\ pc = "start"
    /\ shp' = NoFile
    /\ ds' = NoPage
    /\ nLastOffset' = 0
    /\ requests' = <<FailedReq(0)>>
    /\ pc' = "raised"
    /\ UNCHANGED clipVars
    /\ UNCHANGED bulkVars
    /\ UNCHANGED <<remote, maxRecordCount, feature_count, calls, prev>>

\* ogr.Open returns None when the request fails, and ds.GetLayerByIndex(0)
\* raises AttributeError: nothing at shapefile_path has been touched.
OpenFails ==
    /\ pc = "start"
    /\ ds' = NoPage
    /\ nLastOffset' = 0
    /\ requests' = <<FailedReq(0)>>
    /\ pc' = "raised"
    /\ UNCHANGED clipVars
    /\ UNCHANGED bulkVars
    /\ UNCHANGED <<remote, maxRecordCount, shp, feature_count, calls, prev>>

\* layer = ds.GetLayerByIndex(0); feature_count = layer.GetFeatureCount():
\* the count the server reports (returnCountOnly), printed and not used again.
GetFeatureCount ==
    /\ pc = "opened"
    /\ feature_count' = Len(remote)
    /\ pc' = "counted"
    /\ UNCHANGED clipVars
    /\ UNCHANGED bulkVars
    /\ UNCHANGED <<remote, maxRecordCount, shp, ds, nLastOffset, requests, calls, prev>>

\* An output opened without the DeleteDataSource: the old records stay.
KeepExisting(old) == [exists |-> TRUE, feats |-> old.feats]

\* if os.path.exists(shapefile_path): driver_out.DeleteDataSource(...);
\* ds_out = driver_out.CreateDataSource(shapefile_path): the file is created
\* in place, empty.
CreateDataSource(old) == [exists |-> TRUE, feats |-> << >>]

CreateOut ==
    /\ pc = "counted"
    /\ shp' = CreateDataSource(shp)
    /\ pc' = "copying"
    /\ UNCHANGED clipVars
    /\ UNCHANGED bulkVars
    /\ UNCHANGED <<remote, maxRecordCount, ds, nLastOffset, feature_count, requests,
                   calls, prev>>

\* ds_out.CopyLayer(layer, "layer") reads the layer feature by feature and
\* writes each to the shapefile.  The features of the page in ds are written;
\* the layer ends here when the page has no other pages.
CopyLastPage ==
    /\ pc = "copying"
    /\ ~HasOtherPages(ds)
    /\ shp' = [shp EXCEPT !.feats = shp.feats \o ds.features]
    /\ pc' = "copied"
    /\ UNCHANGED clipVars
    /\ UNCHANGED bulkVars
    /\ UNCHANGED <<remote, maxRecordCount, ds, nLastOffset, feature_count, requests,
                   calls, prev>>

\* LoadNextPage: nLastOffset advances by the features of the page read, and
\* the next page is requested.
NextOffset == nLastOffset + Len(ds.features)

\* The features of the page are written and the next page is loaded; a page
\* without features ends the layer.
CopyPageLoadNext ==
    /\ pc = "copying"
    /\ HasOtherPages(ds)
    /\ shp' = [shp EXCEPT !.feats = shp.feats \o ds.features]
    /\ nLastOffset' = NextOffset
    /\ ds' = QueryPage(NextOffset)
    /\ requests' = Append(requests, Req(NextOffset, QueryPage(NextOffset)))
    /\ pc' = IF Len(QueryPage(NextOffset).features) = 0 THEN "copied" ELSE "copying"
    /\ UNCHANGED clipVars
    /\ UNCHANGED bulkVars
    /\ UNCHANGED <<remote, maxRecordCount, feature_count, calls, prev>>

\* The request for the next page fails: LoadNextPage returns false,
\* GetNextFeature returns no feature, and CopyLayer ends as at the end of the
\* layer.  No exception reaches the notebook.
CopyPageLoadFails ==
    /\ pc = "copying"
    /\ HasOtherPages(ds)
    /\ shp' = [shp EXCEPT !.feats = shp.feats \o ds.features]
    /\ nLastOffset' = NextOffset
    /\ ds' = NoPage
    /\ requests' = Append(requests, FailedReq(NextOffset))
    /\ pc' = "copied"
    /\ UNCHANGED clipVars
    /\ UNCHANGED bulkVars
    /\ UNCHANGED <<remote, maxRecordCount, feature_count, calls, prev>>

\* print("Output Feature Count ..."); ds = None; ds_out = None: the function
\* returns normally.
Finish ==
    /\ pc = "copied"
    /\ pc' = "done"
    /\ UNCHANGED clipVars
    /\ UNCHANGED bulkVars
    /\ UNCHANGED <<remote, maxRecordCount, shp, ds, nLastOffset, feature_count,
                   requests, calls, prev>>

\* The function is called (again) on the same layer and path.
Call ==
    /\ pc \in {"idle", "done", "raised"}
    /\ calls < MaxCalls
    /\ calls' = calls + 1
    /\ prev' = IF pc = "idle" THEN NoPrev
               ELSE [done |-> pc = "done", clean |-> ~Failed(requests), feats |-> shp.feats]
    /\ pc' = "start"
    /\ ds' = NoPage
    /\ nLastOffset' = 0
    /\ feature_count' = 0
    /\ requests' = << >>
    /\ UNCHANGED clipVars
    /\ UNCHANGED bulkVars
    /\ UNCHANGED <<remote, maxRecordCount, shp>>

(***************************************************************************)
(* Initial states of the download notebook.                                *)
(***************************************************************************)
\* A layer of k records: identifiers 1..k, stored in any order.
SmallRemotes == UNION {Perms(1..k) : k \in 0..MaxK}
LargeRemotes == {[i \in 1..k |-> i] : k \in LargeSizes}

\* What stands at shapefile_path before the first call: nothing, or the
\* shapefile of an earlier download.
OldFiles == {NoFile, [exists |-> TRUE, feats |-> << >>], [exists |-> TRUE, feats |-> <<7, 3>>]}

ClipIdle ==
    /\ features_gdf = << >>
    /\ boundary_gdf = << >>
    /\ boundary_geom = [kind |-> "none", cells |-> {}, seg |-> << >>]
    /\ clip_possible_gdf = << >>
    /\ clip_exact_gdf = << >>
    /\ clipped_shp = [exists |-> FALSE, rows |-> << >>]
    /\ cpc = "off"

BulkIdle ==
    /\ df = << >>
    /\ id_list = [kind |-> "none", ids |-> {}]
    /\ row = 1
    /\ files = << >>
    /\ fetched = << >>
    /\ lpc = "off"

FetchInit ==
    /\ \/ remote \in SmallRemotes /\ maxRecordCount \in (1..MaxCap) \cup LargeCaps
       \/ remote \in LargeRemotes /\ maxRecordCount \in LargeCaps
    /\ shp \in OldFiles
    /\ pc = "idle"
    /\ ds = NoPage
    /\ nLastOffset = 0
    /\ feature_count = 0
    /\ requests = << >>
    /\ calls = 0
    /\ prev = NoPrev
    /\ ClipIdle
    /\ BulkIdle

FetchNext ==
    \/ Call
    \/ OpenOk
    \/ OpenFails
    \/ GetFeatureCount
    \/ CreateOut
    \/ CopyLastPage
    \/ CopyPageLoadNext
    \/ CopyPageLoadFails
    \/ Finish

FetchSpec == FetchInit /\ [][FetchNext]_vars

\* The notebook is one synchronous thread: a step that can be taken is taken.
FetchFairSpec == FetchSpec /\ WF_vars(FetchNext)

(***************************************************************************)
(* Geometries of the clip notebook.  The plane is a grid of unit cells; a   *)
(* polygon is a non-empty set of closed cells; a zero-area polygon (a ring  *)
(* collapsed to a segment or a point) has a bounding box and no cell.       *)
(*   kind "poly"  : cells # {}                                              *)
(*   kind "flat"  : seg = <<x0, x1, y>>, the segment from (x0,y) to (x1,y)  *)
(*   kind "empty" : POLYGON EMPTY                                           *)
(*   kind "none"  : the row has no geometry (None)                          *)
(***************************************************************************)
GridXs == {0, 1, 2}
GridYs == {0, 1}
Cells == GridXs \X GridYs

Poly(cs) == [kind |-> "poly", cells |-> cs, seg |-> << >>]
Flat(x0, x1, y) == [kind |-> "flat", cells |-> {}, seg |-> <<x0, x1, y>>]
EmptyGeom == [kind |-> "empty", cells |-> {}, seg |-> << >>]
NoGeom == [kind |-> "none", cells |-> {}, seg |-> << >>]

Rect(x0, x1, y0, y1) == Poly({c \in Cells : c[1] \in x0..x1 /\ c[2] \in y0..y1})

SetMin(S) == CHOOSE a \in S : \A b \in S : a <= b
SetMax(S) == CHOOSE a \in S : \A b \in S : a >= b

\* geometry.bounds: the minimal axis-aligned rectangle around the geometry.
HasBounds(g) == g.kind \in {"poly", "flat"}

Bounds(g) ==
    IF g.kind = "poly"
    THEN [minx |-> SetMin({c[1] : c \in g.cells}), maxx |-> SetMax({c[1] : c \in g.cells}) + 1,
          miny |-> SetMin({c[2] : c \in g.cells}), maxy |-> SetMax({c[2] : c \in g.cells}) + 1]
    ELSE [minx |-> g.seg[1], maxx |-> g.seg[2], miny |-> g.seg[3], maxy |-> g.seg[3]]

\* The test with the axes of the second box exchanged.
BoxesIntersectSwapped(a, b) ==
    /\ a.minx <= b.maxy /\ b.miny <= a.maxx
    /\ a.miny <= b.maxx /\ b.minx <= a.maxy

\* The R-tree's test: two closed rectangles share a point.
BoxesIntersect(a, b) ==
    /\ a.minx <= b.maxx /\ b.minx <= a.maxx
    /\ a.miny <= b.maxy /\ b.miny <= a.maxy

\* The grid points on the boundary of g: the corners that cells of g and
\* cells outside g meet at.
Corners(c) == {<<c[1], c[2]>>, <<c[1] + 1, c[2]>>, <<c[1], c[2] + 1>>, <<c[1] + 1, c[2] + 1>>}
Around(v) == {<<v[1] - 1, v[2] - 1>>, <<v[1], v[2] - 1>>, <<v[1] - 1, v[2]>>, <<v[1], v[2]>>}
OnBoundary(v, g) == (\E c \in Around(v) : c \in g.cells) /\ (\E c \in Around(v) : c \notin g.cells)

\* f has a point on the boundary of g.
Touches(f, g) == \E c \in f.cells : \E v \in Corners(c) : OnBoundary(v, g)

\* f has a point in the interior of g / in the exterior of g.
MeetsInterior(f, g) == f.cells \cap g.cells # {}
MeetsExterior(f, g) == f.cells \ g.cells # {}

\* shapely intersects, for polygons of cells: the interiors share a point.
Intersects(f, g) == f.kind = "poly" /\ g.kind = "poly" /\ MeetsInterior(f, g)

\* Strict containment (contains_properly): f within g and off its boundary.
WithinStrictly(f, g) ==
    f.kind = "poly" /\ g.kind = "poly" /\ ~MeetsExterior(f, g) /\ ~Touches(f, g)

\* shapely within (DE-9IM): no point of f lies in the exterior of g and the
\* interiors share a point.  A geometry with no interior (flat, empty, none)
\* has nothing within it, and an empty f is within nothing.
Within(f, g) ==
    f.kind = "poly" /\ g.kind = "poly" /\ MeetsInterior(f, g) /\ ~MeetsExterior(f, g)

\* features_gdf.sindex.query(geom), predicate None: the positions of the rows
\* whose bounding box intersects the bounding box of geom.  Rows without a
\* geometry are not in the tree; a missing or empty geom matches nothing.
SindexHits(geom) ==
    IF ~HasBounds(geom) THEN {}
    ELSE {i \in 1..Len(features_gdf) :
            /\ HasBounds(features_gdf[i])
            /\ BoxesIntersect(Bounds(features_gdf[i]), Bounds(geom))}

\* The result array of sindex.query (sort=False): the hits in the order the
\* tree yields them, which geopandas does not promise to be ascending.
SindexQuery(geom) == Perms(SindexHits(geom))

(***************************************************************************)
(* 2_NLD_Clip_and_Vis.ipynb: subsetting and saving, cell by cell.          *)
(***************************************************************************)
\* boundary_geom = boundary_gdf.iloc[0].geometry;
\* clip_possible_gdf = features_gdf.iloc[features_gdf.sindex.query(boundary_geom)]
Pass1 ==
    /\ cpc = "loaded"
    /\ Len(boundary_gdf) >= 1
    /\ boundary_geom' = boundary_gdf[1]
    /\ clip_possible_gdf' \in SindexQuery(boundary_gdf[1])
    /\ cpc' = "pass1"
    /\ UNCHANGED fetchVars
    /\ UNCHANGED bulkVars
    /\ UNCHANGED <<features_gdf, boundary_gdf, clip_exact_gdf, clipped_shp>>

\* boundary_gdf.iloc[0] on a boundary file without rows raises IndexError.
Pass1Raises ==
    /\ cpc = "loaded"
    /\ Len(boundary_gdf) = 0
    /\ cpc' = "raised_pass1"
    /\ UNCHANGED fetchVars
    /\ UNCHANGED bulkVars
    /\ UNCHANGED <<features_gdf, boundary_gdf, boundary_geom, clip_possible_gdf,
                   clip_exact_gdf, clipped_shp>>

\* clip_exact_gdf = clip_possible_gdf[clip_possible_gdf.geometry.within(boundary_geom)]:
\* a boolean mask, which keeps the order of clip_possible_gdf.
Pass2 ==
    /\ cpc = "pass1"
    /\ clip_exact_gdf' =
        LET keep(i) == Within(features_gdf[i], boundary_geom)
        IN  SelectSeq(clip_possible_gdf, keep)
    /\ cpc' = "pass2"
    /\ UNCHANGED fetchVars
    /\ UNCHANGED bulkVars
    /\ UNCHANGED <<features_gdf, boundary_gdf, boundary_geom, clip_possible_gdf, clipped_shp>>

\* clip_exact_gdf.to_file(nld_clipped_shp_path)
ToFile ==
    /\ cpc = "pass2"
    /\ clipped_shp' = [exists |-> TRUE, rows |-> clip_exact_gdf]
    /\ cpc' = "saved"
    /\ UNCHANGED fetchVars
    /\ UNCHANGED bulkVars
    /\ UNCHANGED <<features_gdf, boundary_gdf, boundary_geom, clip_possible_gdf,
                   clip_exact_gdf>>

\* to_file of a frame without rows: the geopandas releases that infer the
\* schema from the rows raise ValueError (cannot write empty DataFrame);
\* later ones warn and write, which is ToFile.
ToFileRaises ==
    /\ cpc = "pass2"
    /\ clip_exact_gdf = << >>
    /\ cpc' = "raised_save"
    /\ UNCHANGED fetchVars
    /\ UNCHANGED bulkVars
    /\ UNCHANGED <<features_gdf, boundary_gdf, boundary_geom, clip_possible_gdf,
                   clip_exact_gdf, clipped_shp>>

(***************************************************************************)
(* Initial states of the clip notebook: gpd.read_file of both files.       *)
(***************************************************************************)
\* Feature geometries: the rectangles of one or two cells.
Rects ==
    {g \in {Rect(x0, x1, y0, y1) : x0, x1 \in GridXs, y0, y1 \in GridYs} :
        Cardinality(g.cells) \in {1, 2}}
Polys == {Poly(cs) : cs \in (SUBSET Cells) \ {{}}}
Flats == {Flat(0, 3, 1), Flat(0, 1, 0), Flat(1, 1, 1)}

\* The rows of the NLD layer: rectangles, and rows without geometry.
FeatureGeoms == Rects \cup {NoGeom}
\* The boundary file: no row, one row, or a first row without area followed
\* by a polygon, which iloc[0] never reads.
BoundaryGeoms == Polys \cup Flats \cup {EmptyGeom, NoGeom}
BoundaryFiles ==
    {<< >>} \cup {<<b>> : b \in BoundaryGeoms}
            \cup {<<b, Poly(Cells)>> : b \in Flats \cup {EmptyGeom, NoGeom}}

SeqsUpTo(S, n) == UNION {[1..m -> S] : m \in 0..n}

FetchIdle ==
    /\ remote = << >>
    /\ maxRecordCount = resultRecordCount
    /\ shp = NoFile
    /\ pc = "off"
    /\ ds = NoPage
    /\ nLastOffset = 0
    /\ feature_count = 0
    /\ requests = << >>
    /\ calls = 0
    /\ prev = NoPrev

ClipInit ==
    /\ features_gdf \in SeqsUpTo(FeatureGeoms, MaxFeatures)
    /\ boundary_gdf \in BoundaryFiles
    /\ boundary_geom = NoGeom
    /\ clip_possible_gdf = << >>
    /\ clip_exact_gdf = << >>
    /\ clipped_shp = [exists |-> FALSE, rows |-> << >>]
    /\ cpc = "loaded"
    /\ FetchIdle
    /\ BulkIdle

ClipNext ==
    \/ Pass1
    \/ Pass1Raises
    \/ Pass2
    \/ ToFile
    \/ ToFileRaises

ClipSpec == ClipInit /\ [][ClipNext]_vars

(***************************************************************************)
(* Bulk download: _ = df.apply(row_func, axis=1)                           *)
(*                                                                         *)
(* df.apply with axis=1 calls row_func on the rows of df in their order,   *)
(* once each, and an exception of row_func leaves apply.  The rows have    *)
(* different names, so each row has a shp_path of its own.                 *)
(***************************************************************************)
\* if id_list is not None and type(id_list) is list:
\*     if int(id) not in id_list: return
Filtered(id) == id_list.kind = "list" /\ id \notin id_list.ids

\* row_func returns at once for a row that the filter drops; df.apply goes
\* on to the next row.
RowSkip ==
    /\ lpc = "loop"
    /\ row <= Len(df)
    /\ Filtered(df[row])
    /\ row' = row + 1
    /\ UNCHANGED <<df, id_list, files, fetched, lpc>>
    /\ UNCHANGED fetchVars
    /\ UNCHANGED clipVars

\* The layers behind featurelayer_url: empty, or two records stored out of
\* identifier order.
BulkRemotes == {<< >>, <<2, 1>>}

\* row_func builds shp_path and featurelayer_url and calls
\* featurelayer2shapefile_ogr(featurelayer_url, shp_path).
RowCall ==
    /\ lpc = "loop"
    /\ row <= Len(df)
    /\ ~Filtered(df[row])
    /\ fetched' = Append(fetched, [row |-> row, failed |-> FALSE])
    /\ lpc' = "in_call"
    /\ remote' \in BulkRemotes
    /\ shp' = files[row]
    /\ pc' = "start"
    /\ ds' = NoPage
    /\ nLastOffset' = 0
    /\ feature_count' = 0
    /\ requests' = << >>
    /\ UNCHANGED <<df, id_list, row, files>>
    /\ UNCHANGED <<maxRecordCount, calls, prev>>
    /\ UNCHANGED clipVars

\* The log of calls with the outcome of the call that has just ended.
Ended(log) == [log EXCEPT ![Len(log)].failed = Failed(requests)]

\* featurelayer2shapefile_ogr returns, row_func returns, and df.apply goes
\* on to the next row.
RowReturn ==
    /\ lpc = "in_call"
    /\ pc = "done"
    /\ files' = [files EXCEPT ![row] = shp]
    /\ fetched' = Ended(fetched)
    /\ row' = row + 1
    /\ lpc' = "loop"
    /\ pc' = "idle"
    /\ UNCHANGED <<df, id_list>>
    /\ UNCHANGED <<remote, maxRecordCount, shp, ds, nLastOffset, feature_count,
                   requests, calls, prev>>
    /\ UNCHANGED clipVars

\* featurelayer2shapefile_ogr raises: the exception leaves row_func and
\* df.apply, and the cell ends.
RowRaises ==
    /\ lpc = "in_call"
    /\ pc = "raised"
    /\ files' = [files EXCEPT ![row] = shp]
    /\ fetched' = Ended(fetched)
    /\ lpc' = "stopped"
    /\ pc' = "idle"
    /\ UNCHANGED <<df, id_list, row>>
    /\ UNCHANGED <<remote, maxRecordCount, shp, ds, nLastOffset, feature_count,
                   requests, calls, prev>>
    /\ UNCHANGED clipVars

\* df = pd.DataFrame(layer_def["layers"]): rows with different layer ids.
LayerIds == 0..MaxRows
Descriptors == UNION {Perms(S) : S \in {T \in SUBSET LayerIds : Cardinality(T) <= MaxRows}}

\* id_list: None, a list of ids, or range(0, df.shape[0]).
IdLists ==
    {[kind |-> "none", ids |-> {}], [kind |-> "range", ids |-> {}]}
        \cup {[kind |-> "list", ids |-> S] : S \in SUBSET LayerIds}

\* What stands in download_folder before the cell runs: nothing, or the
\* shapefiles of an earlier download.
EarlierFiles == {NoFile, [exists |-> TRUE, feats |-> <<7, 3>>]}

BulkInit ==
    /\ df \in Descriptors
    /\ id_list \in IdLists
    /\ row = 1
    /\ \E f \in EarlierFiles : files = [i \in 1..Len(df) |-> f]
    /\ fetched = << >>
    /\ lpc = "loop"
    /\ remote = << >>
    /\ maxRecordCount \in {1, resultRecordCount}
    /\ shp = NoFile
    /\ pc = "idle"
    /\ ds = NoPage
    /\ nLastOffset = 0
    /\ feature_count = 0
    /\ requests = << >>
    /\ calls = 0
    /\ prev = NoPrev
    /\ ClipIdle

BulkNext ==
    \/ RowSkip
    \/ RowCall
    \/ OpenOk
    \/ OpenFails
    \/ GetFeatureCount
    \/ CreateOut
    \/ CopyLastPage
    \/ CopyPageLoadNext
    \/ CopyPageLoadFails
    \/ Finish
    \/ RowReturn
    \/ RowRaises

BulkSpec == BulkInit /\ [][BulkNext]_vars

(***************************************************************************)
(* Claims about the paged fetch.                                           *)
(***************************************************************************)
\* The call has returned normally and none of its page requests failed.
CleanDone == pc = "done" /\ ~Failed(requests)

\* C1: when no request fails, the fetch of a static layer of k records ends
\* without error and the shapefile holds exactly the k records, each once, in
\* ascending identifier order, whatever the page size (the smaller of
\* resultRecordCount and the service's cap) and also for k = 0.
C1_ExactlyOnceAscending ==
    /\ pc = "raised" => Failed(requests)
    /\ CleanDone =>
        /\ shp.exists
        /\ Len(shp.feats) = Len(remote)
        /\ Range(shp.feats) = Range(remote)
        /\ Ascending(shp.feats)

\* C1 witness: a layer stored out of identifier order, of twice the page
\* size, has been fetched in more than one page.
C1_Witness ==
    /\ CleanDone
    /\ ~Ascending(remote)
    /\ Len(remote) = 2 * Min(resultRecordCount, maxRecordCount)
    /\ Len(requests) >= 2

\* C2 as claimed: no page request follows a page of fewer than page_size
\* (resultRecordCount) records.
C2_NoRequestAfterShortPage ==
    \A i \in 1..(Len(requests) - 1) : requests[i].n = resultRecordCount

\* The requests of a call go up by the size of the page before; every
\* request that is followed by another returned a page with features and
\* with exceededTransferLimit set; no request follows one that reached the
\* server's total; where the service's cap is not below resultRecordCount no
\* request follows a short page; a layer of 2500 records is fetched in three
\* requests of 1000, 1000 and 500 records, written in request order.
C2_Safety ==
    /\ \A i \in 1..(Len(requests) - 1) :
        /\ requests[i].n > 0
        /\ requests[i].more
        /\ requests[i + 1].offset = requests[i].offset + requests[i].n
        /\ requests[i].offset + requests[i].n < Len(remote)
        /\ maxRecordCount >= resultRecordCount => requests[i].n = resultRecordCount
    /\ Len(requests) <= Len(remote) + 1
    /\ (CleanDone /\ Len(remote) = 2500) =>
        /\ [i \in 1..Len(requests) |-> requests[i].n] = <<1000, 1000, 500>>
        /\ [i \in 1..Len(requests) |-> requests[i].offset] = <<0, 1000, 2000>>
        /\ shp.feats = [i \in 1..2500 |-> i]

\* C2 (amended): every call ends, and its requests obey C2_Safety: the fetch
\* stops at the page for which the server reports no further records, at an
\* empty page or at a failed one, not at a short page as such.
C2_Terminates == [](C2_Safety) /\ ((pc = "start") ~> (pc \in {"done", "raised"}))

\* C2 witness: the layer of 2500 records has been fetched in three requests.
C2_Witness == CleanDone /\ Len(remote) = 2500 /\ Len(requests) = 3

\* C3 as claimed: a failed page request makes the call fail: the call does
\* not go on to return normally, and no request follows the failed one.
C3_FailedPageFailsFetch ==
    /\ Failed(requests) => pc \notin {"copied", "done"}
    /\ \A i \in 1..(Len(requests) - 1) : requests[i].n # -1

\* C4 as claimed: a call with a failed request never reports success, and no
\* shapefile that the call has finished writing holds fewer records than the
\* layer.
C4_NoPartialOutputAsComplete ==
    /\ Failed(requests) => pc # "done"
    /\ pc \in {"copied", "done"} => Len(shp.feats) = Len(remote)

\* C5: a call that ends with no failed request, after a call that ended with
\* no failed request, leaves the same records in the same order, whatever
\* stood at the path before the first call.
C5_Idempotent ==
    (CleanDone /\ prev.done /\ prev.clean) => shp.feats = prev.feats

\* C5 witness: the second of two clean calls has ended on a layer of several
\* pages, and a shapefile of an earlier download stood at the path.
C5_Witness ==
    /\ CleanDone /\ prev.done /\ prev.clean
    /\ Len(requests) >= 2
    /\ Len(shp.feats) >= 3

\* The shapefile of a call that ended with no failed request: it exists,
\* holds as many records as the server counted and as the pages returned,
\* the records of the layer each once, and so nothing of what stood at the
\* path before.
C11_Replaced ==
    CleanDone =>
        /\ shp.exists
        /\ Len(shp.feats) = feature_count
        /\ Len(shp.feats) = requests[Len(requests)].offset + requests[Len(requests)].n
        /\ Range(shp.feats) = Range(remote)
        /\ Cardinality(Range(shp.feats)) = Len(shp.feats)

\* A step changes the shapefile only after the first request of the call
\* has succeeded, and a call that raises leaves it as it was.
C11_TouchedAfterOpen ==
    /\ shp' # shp =>
        /\ pc \in {"counted", "copying"}
        /\ Len(requests) >= 1 /\ requests[1].n # -1
    /\ pc' = "raised" => shp' = shp

\* C11: after a call that ended with no failed request the shapefile at the
\* path holds exactly the records fetched by this call (output count equal
\* to input count) and none of the previous contents, whatever stood there
\* before; an existing shapefile is deleted only after the query has been
\* opened, so a failure to open the query leaves it unchanged.
C11_Overwritten == [](C11_Replaced) /\ [][C11_TouchedAfterOpen]_vars

\* C11 witness: the path held the truncated shapefile of an earlier call,
\* and a later call with no failed request has replaced it.
C11_Witness ==
    /\ CleanDone
    /\ prev.done /\ ~prev.clean /\ prev.feats # << >>
    /\ Len(shp.feats) > Len(prev.feats)

\* C11 witness of the second part: the query could not be opened and the
\* shapefile of an earlier download still stands at the path.
C11_OpenFailedReached == pc = "raised" /\ shp.exists /\ shp.feats # << >>

(***************************************************************************)
(* Claims about the two-pass clip.                                         *)
(***************************************************************************)
\* Both passes have run.
Clipped == cpc \in {"pass2", "saved", "raised_save"}

Rows == 1..Len(features_gdf)
Output == Range(clip_exact_gdf)
Candidates == Range(clip_possible_gdf)

\* Every cell of the feature in row i is a cell of the boundary.
FullyInside(i) ==
    /\ features_gdf[i].cells # {}
    /\ \A c \in features_gdf[i].cells : c \in boundary_geom.cells

\* No cell of the feature in row i is a cell of the boundary.
FullyOutside(i) ==
    /\ features_gdf[i].cells # {}
    /\ \A c \in features_gdf[i].cells : c \notin boundary_geom.cells

BoxesMeet(i) ==
    /\ HasBounds(features_gdf[i]) /\ HasBounds(boundary_geom)
    /\ BoxesIntersect(Bounds(features_gdf[i]), Bounds(boundary_geom))

\* C6: the output is a subset of the input rows, each at most once; every
\* output row is a Pass-1 candidate whose bounding box intersects the
\* boundary's and whose geometry is fully within the boundary; a row whose
\* box intersects the boundary's box and whose geometry is entirely outside
\* the boundary is a candidate and is not in the output.
C6_SubsetCandidateWithin ==
    Clipped =>
        /\ Output \subseteq Rows
        /\ Len(clip_exact_gdf) = Cardinality(Output)
        /\ \A i \in Output : i \in Candidates /\ BoxesMeet(i) /\ FullyInside(i)
        /\ \A i \in Rows : (BoxesMeet(i) /\ FullyOutside(i)) => (i \in Candidates /\ i \notin Output)

\* C6 witness: one row is in the output and another, entirely outside the
\* boundary, was a candidate of Pass 1.
C6_Witness ==
    /\ Clipped
    /\ Output # {}
    /\ \E i \in Rows : BoxesMeet(i) /\ FullyOutside(i) /\ i \in Candidates

\* C7: the output of the two passes holds the same rows as the exact test
\* applied to every row of the input.
C7_TwoPassEqualsExact ==
    Clipped => Output = {i \in Rows : Within(features_gdf[i], boundary_geom)}

\* C7 witness: Pass 1 has excluded a row that has a geometry, and another
\* row is in the output.
C7_Witness ==
    /\ Clipped
    /\ Output # {}
    /\ \E i \in Rows : HasBounds(features_gdf[i]) /\ i \notin Candidates

\* C8 as claimed: the output rows stand in the order of the input rows.
C8_StableOrder == Clipped => Ascending(clip_exact_gdf)

\* The boundary has zero area.
ZeroArea(g) == g.kind \in {"flat", "empty"}

\* C9 as claimed: a row that touches the boundary of B is not in the
\* output, and a boundary of zero area gives an empty output and no error.
C9_TouchingExcluded ==
    Clipped =>
        /\ \A i \in Rows : Touches(features_gdf[i], boundary_geom) => i \notin Output
        /\ ZeroArea(boundary_geom) => clip_exact_gdf = << >>

\* C9 (amended): a row that touches the boundary of B and has a part outside
\* B is not in the output; a row that lies within B is in the output also
\* when it touches the boundary of B; a boundary of zero area makes neither
\* pass fail and gives an empty output.
C9_TouchingFromOutsideExcluded ==
    /\ (cpc = "raised_pass1") => Len(boundary_gdf) = 0
    /\ Clipped =>
        /\ \A i \in Rows :
            Touches(features_gdf[i], boundary_geom) =>
                (i \in Output <=> FullyInside(i))
        /\ ZeroArea(boundary_geom) => clip_exact_gdf = << >>

\* C9 witness: a row within B that touches its boundary is in the output and
\* a row that touches it from outside is not.
C9_Witness ==
    /\ Clipped
    /\ \E i \in Output : Touches(features_gdf[i], boundary_geom)
    /\ \E i \in Rows \ Output : Touches(features_gdf[i], boundary_geom) /\ FullyOutside(i)

\* C9 witness of the second part: Pass 1 found candidates for a boundary of
\* zero area and Pass 2 kept none.
C9_ZeroAreaReached == Clipped /\ boundary_geom.kind = "flat" /\ Candidates # {}

\* The boundary file holds no geometry, or its first geometry is missing or
\* empty.
MalformedBoundary ==
    \/ Len(boundary_gdf) = 0
    \/ boundary_gdf[1].kind \in {"none", "empty"}

\* C10 as claimed: with a malformed or missing boundary the clip fails
\* instead of producing a result, and the clipped shapefile is written only
\* after both passes have completed.
C10_InvalidBoundaryFails ==
    /\ (MalformedBoundary /\ cpc # "loaded") => cpc = "raised_pass1"
    /\ clipped_shp.exists => cpc = "saved"

(***************************************************************************)
(* Claims about the bulk download loop.                                    *)
(***************************************************************************)
\* The rows that row_func has been called on.
Visited == IF lpc \in {"in_call", "stopped"} THEN row ELSE row - 1

\* The rows among them that the filter lets through, in listed order.
SelectedRows ==
    LET pass(j) == ~(id_list.kind = "list" /\ df[j] \notin id_list.ids)
    IN  SelectSeq([j \in 1..Visited |-> j], pass)

\* The calls of fetch-and-save are those of the selected rows, in listed
\* order, once each.
C12_CalledIffSelected == [p \in 1..Len(fetched) |-> fetched[p].row] = SelectedRows

\* The shapefile of a row that is filtered out is as it was before the cell
\* ran.
C12_FilteredUntouched ==
    \A j \in 1..Len(df) :
        (id_list.kind = "list" /\ df[j] \notin id_list.ids) => files[j] \in EarlierFiles

\* No call of fetch-and-save follows a call in which a request failed.
C12_FailureStopsLoop == \A p \in 1..(Len(fetched) - 1) : ~fetched[p].failed

\* C12 as claimed: the loop visits the descriptors in listed order, once
\* each, and calls fetch-and-save exactly for those that id_list selects
\* (for all of them when id_list is None or not a list); a descriptor that
\* is filtered out causes no fetch and no file change; a failure while
\* downloading one layer stops the loop, so that no later layer is
\* downloaded.
C12_BulkLoop ==
    /\ C12_CalledIffSelected
    /\ C12_FilteredUntouched
    /\ C12_FailureStopsLoop

====
